---- MODULE Spec2Model ----
(***************************************************************************)
(* Model of github.com/bmheenan/result: result containers (Status, Val,    *)
(* Vals), their terminal operations (OrError, OrDoAndReturn, OrPanic) and  *)
(* the deferred handlers (HandleReturn, HandleError, Handle) that turn a   *)
(* panic raised by a terminal operation into a return of the function that *)
(* deferred the handler.                                                   *)
(*                                                                         *)
(* The call stack is a sequence of activations.  Each activation has the   *)
(* handler it deferred at entry, its named result (a container) and its    *)
(* named error, and the number of statements of its body it has executed.  *)
(***************************************************************************)
EXTENDS Integers, Sequences, FiniteSets, TLC

\* ------------------------------------------------------------------------
\* Bounds of the model
\* ------------------------------------------------------------------------
MaxDepth == 3   \* activations on the call stack
MaxOps == 4     \* statements executed in one run
MaxLen == 2     \* elements of a slice handed to FromSlice
MaxIdx == 12    \* magnitude of an index handed to FromSlice
MaxKey == 2     \* largest key of a map handed to FromMap
MaxSeq == 2     \* OrError statements in the body of one function

\* ------------------------------------------------------------------------
\* Errors.  A Go error is nil or carries a message.
\* ------------------------------------------------------------------------
Nil == [nil |-> TRUE, msg |-> ""]

NewError(m) == [nil |-> FALSE, msg |-> m]

\* Messages of the errors application code hands to the library
ErrMsgs == {"Test error"}

\* Context strings handed to OrError / OrPanic
Ctxs == {"Context", "result error"}

\* Values held by ok containers (0 is the zero value of the type)
Values == {1}

\* ------------------------------------------------------------------------
\* Panic payloads: what recover() returns.  NoPanic is recover() = nil.
\* ------------------------------------------------------------------------
NoPanic == [kind |-> "nil", err |-> Nil]

panicToReturn(err) == [kind |-> "panicToReturn", err |-> err]

panicToError(err) == [kind |-> "panicToError", err |-> err]

\* panic(fmt.Errorf(...)) of OrPanic: an ordinary error value
panicError(err) == [kind |-> "error", err |-> err]

\* panic("Expected panic") of application code: neither signal type
panicForeign(m) == [kind |-> "string", err |-> NewError(m)]

\* The Error methods of the two signal types.  The backquote of the Go
\* string literals is written ' here (a TLA+ string admits no backquote).
panicToReturnError(p) ==
    "Unrecovered panic from result. Use 'defer result.HandleReturn()', 'defer result.HandleStatus(&v)', or 'defer result.HandleErr(&err)' at the top of the func to convert the panic into a return"

panicToErrorError(p) ==
    "Unrecovered panic from result. Use 'defer result.HandleStatus(&v)' or 'defer result.HandleErr(&err)' at the top of the func to convert the panic into a returned result or error: " \o p.err.msg

\* ------------------------------------------------------------------------
\* Containers
\* ------------------------------------------------------------------------
\* A container is a record of its type, its error and its value(s); the
\* fields are written in the order TLC keeps them in.
baseOk(b) == b.err = Nil

setError(b, err) == [b EXCEPT !.err = err]

\* Faulty variant: the message of the wrapped error is not reported
baseError_noMessage(b) == ""

baseError(b) == IF b.err = Nil THEN "" ELSE b.err.msg

Ok == [err |-> Nil, type |-> "Status"]

Error(err) == [err |-> err, type |-> "Status"]

NewVal(v) == [err |-> Nil, type |-> "Val", v |-> v]

\* Faulty variant: the error container is built around a value
ValError_keepsValue(err) == [err |-> err, type |-> "Val", v |-> 1]

ValError(err) == [err |-> err, type |-> "Val", v |-> 0]

NewVals(v0, v1) == [err |-> Nil, type |-> "Vals", v0 |-> v0, v1 |-> v1]

ValsError(err) == [err |-> err, type |-> "Vals", v0 |-> 0, v1 |-> 0]

\* Try, TryVal, TryVals: the container for what a call returned
Try(err) == IF err = Nil THEN Ok ELSE Error(err)

\* Faulty variant: the value is kept next to the error
TryVal_keepsValue(v, err) == [err |-> err, type |-> "Val", v |-> v]

TryVal(v, err) == IF err = Nil THEN NewVal(v) ELSE ValError(err)

TryVals(v0, v1, err) == IF err = Nil THEN NewVals(v0, v1) ELSE ValsError(err)

\* fmt's %v of an int: decimal digits, most significant first, "-" before
\* a negative number
Digit(d) == SubSeq("0123456789", d + 1, d + 1)

RECURSIVE FormatUint(_)
FormatUint(n) == IF n < 10 THEN Digit(n) ELSE FormatUint(n \div 10) \o Digit(n % 10)

Itoa(n) == IF n < 0 THEN "-" \o FormatUint(0 - n) ELSE FormatUint(n)

\* ValErrorf[T](s, args...) with the message fmt.Errorf made of s and args
ValErrorf(msg) == [err |-> NewError(msg), type |-> "Val", v |-> 0]

\* Faulty variant: the index equal to the length is taken to be in bounds
\* (it reads the zero value)
FromSlice_offByOne(s, i) ==
    IF i < 0 \/ i > Len(s)
    THEN ValErrorf("Index " \o Itoa(i) \o " out of bounds for slice of len " \o Itoa(Len(s)))
    ELSE NewVal(IF i < Len(s) THEN s[i + 1] ELSE 0)

\* A Go slice s is the sequence of its elements: s[i] of Go is s[i + 1]
FromSlice(s, i) ==
    IF i < 0 \/ i >= Len(s)
    THEN ValErrorf("Index " \o Itoa(i) \o " out of bounds for slice of len " \o Itoa(Len(s)))
    ELSE NewVal(s[i + 1])

\* Faulty variant: a key that maps to the zero value is taken to be missing
FromMap_zeroIsMissing(m, k) ==
    IF k \notin DOMAIN m \/ m[k] = 0
    THEN ValErrorf("Map had no value for key " \o Itoa(k))
    ELSE NewVal(m[k])

\* A Go map m is the function from its keys to their values: v, ok := m[k]
\* has ok = (k \in DOMAIN m)
FromMap(m, k) ==
    IF k \notin DOMAIN m
    THEN ValErrorf("Map had no value for key " \o Itoa(k))
    ELSE NewVal(m[k])

\* ------------------------------------------------------------------------
\* Terminal operations.  Each yields the values it returns to its caller
\* (ret) and the payload it panics with (panic, NoPanic when it returns).
\* ------------------------------------------------------------------------
\* Faulty variant: an error Status raises no signal
StatusOrError_goesOn(s, e) == [panic |-> NoPanic, ret |-> <<>>]

StatusOrError(s, e) ==
    IF s.err = Nil
    THEN [panic |-> NoPanic, ret |-> <<>>]
    ELSE [panic |-> panicToError(NewError(e \o ": " \o s.err.msg)), ret |-> <<>>]

\* Faulty variant: the zero value is returned instead of the held one
ValOrError_returnsZero(v, e) ==
    IF v.err = Nil
    THEN [panic |-> NoPanic, ret |-> <<0>>]
    ELSE [panic |-> panicToError(NewError(e \o ": " \o v.err.msg)), ret |-> <<>>]

ValOrError(v, e) ==
    IF v.err = Nil
    THEN [panic |-> NoPanic, ret |-> <<v.v>>]
    ELSE [panic |-> panicToError(NewError(e \o ": " \o v.err.msg)), ret |-> <<>>]

\* Faulty variant: the context is left out of the error
ValsOrError_noContext(v, e) ==
    IF v.err = Nil
    THEN [panic |-> NoPanic, ret |-> <<v.v0, v.v1>>]
    ELSE [panic |-> panicToError(v.err), ret |-> <<>>]

ValsOrError(v, e) ==
    IF v.err = Nil
    THEN [panic |-> NoPanic, ret |-> <<v.v0, v.v1>>]
    ELSE [panic |-> panicToError(NewError(e \o ": " \o v.err.msg)), ret |-> <<>>]

OrError(c, e) ==
    CASE c.type = "Status" -> StatusOrError(c, e)
      [] c.type = "Val" -> ValOrError(c, e)
      [] c.type = "Vals" -> ValsOrError(c, e)

StatusOrPanic(s, p) ==
    IF s.err = Nil
    THEN [panic |-> NoPanic, ret |-> <<>>]
    ELSE [panic |-> panicError(NewError(p \o ": " \o s.err.msg)), ret |-> <<>>]

ValOrPanic(v, p) ==
    IF v.err = Nil
    THEN [panic |-> NoPanic, ret |-> <<v.v>>]
    ELSE [panic |-> panicError(NewError(p \o ": " \o v.err.msg)), ret |-> <<>>]

\* Faulty variant: panics with the error-result signal, as OrError does
ValsOrPanic_asSignal(v, p) ==
    IF v.err = Nil
    THEN [panic |-> NoPanic, ret |-> <<v.v0, v.v1>>]
    ELSE [panic |-> panicToError(NewError(p \o ": " \o v.err.msg)), ret |-> <<>>]

ValsOrPanic(v, p) ==
    IF v.err = Nil
    THEN [panic |-> NoPanic, ret |-> <<v.v0, v.v1>>]
    ELSE [panic |-> panicError(NewError(p \o ": " \o v.err.msg)), ret |-> <<>>]

OrPanic(c, p) ==
    CASE c.type = "Status" -> StatusOrPanic(c, p)
      [] c.type = "Val" -> ValOrPanic(c, p)
      [] c.type = "Vals" -> ValsOrPanic(c, p)

\* OrDoAndReturn: args is the sequence of arguments f is invoked with, in
\* order (empty when f is not invoked); panic is raised after f returned.
StatusOrDoAndReturn(s) ==
    IF s.err = Nil
    THEN [args |-> <<>>, panic |-> NoPanic, ret |-> <<>>]
    ELSE [args |-> <<s.err>>, panic |-> panicToReturn(s.err), ret |-> <<>>]

\* Faulty variant: f is not invoked before the panic
ValOrDoAndReturn_skipsF(v) ==
    IF v.err = Nil
    THEN [args |-> <<>>, panic |-> NoPanic, ret |-> <<v.v>>]
    ELSE [args |-> <<>>, panic |-> panicToReturn(v.err), ret |-> <<>>]

ValOrDoAndReturn(v) ==
    IF v.err = Nil
    THEN [args |-> <<>>, panic |-> NoPanic, ret |-> <<v.v>>]
    ELSE [args |-> <<v.err>>, panic |-> panicToReturn(v.err), ret |-> <<>>]

ValsOrDoAndReturn(v) ==
    IF v.err = Nil
    THEN [args |-> <<>>, panic |-> NoPanic, ret |-> <<v.v0, v.v1>>]
    ELSE [args |-> <<v.err>>, panic |-> panicToReturn(v.err), ret |-> <<>>]

OrDoAndReturn(c) ==
    CASE c.type = "Status" -> StatusOrDoAndReturn(c)
      [] c.type = "Val" -> ValOrDoAndReturn(c)
      [] c.type = "Vals" -> ValsOrDoAndReturn(c)

\* OrUse returns the held value(s), or the given default(s) when the
\* container holds an error.  It never panics.
\* Faulty variant: the default wins over the held value
ValOrUse_alwaysDefault(v, s) == <<s>>

ValOrUse(v, s) == IF v.err = Nil THEN <<v.v>> ELSE <<s>>

ValsOrUse(v, s0, s1) == IF v.err = Nil THEN <<v.v0, v.v1>> ELSE <<s0, s1>>

OrUse(c, s0, s1) ==
    CASE c.type = "Val" -> ValOrUse(c, s0)
      [] c.type = "Vals" -> ValsOrUse(c, s0, s1)

\* OrDo invokes f with the held error, if there is one, and returns.
\* args is the sequence of arguments f is invoked with.
\* Faulty variant: f is invoked whatever the status holds
StatusOrDo_alwaysCalls(s) == [args |-> <<s.err>>]

StatusOrDo(s) == IF s.err = Nil THEN [args |-> <<>>] ELSE [args |-> <<s.err>>]

\* ------------------------------------------------------------------------
\* Handlers.  r is what recover() returns in the deferred call.  panic is
\* the payload the handler panics with again (NoPanic when it returns).
\* ------------------------------------------------------------------------
\* Faulty variant: recovers whatever is in flight
HandleReturn_recoversAll(r) == NoPanic

\* Faulty variant: panics again with the return signal too
HandleReturn_recoversNothing(r) == r

\* Faulty variant: what is not the return signal is panicked again as one
HandleReturn_repanicsAsReturn(r) ==
    IF r = NoPanic THEN NoPanic
    ELSE IF r.kind = "panicToReturn" THEN NoPanic
    ELSE panicToReturn(r.err)

HandleReturn(r) ==
    IF r = NoPanic THEN NoPanic
    ELSE IF r.kind = "panicToReturn" THEN NoPanic
    ELSE r

\* Faulty variant: recovers the error-result signal without storing its error
HandleError_dropsError(err, r) ==
    IF r = NoPanic THEN [err |-> err, panic |-> NoPanic]
    ELSE IF r.kind \in {"panicToReturn", "panicToError"} THEN [err |-> err, panic |-> NoPanic]
    ELSE [err |-> err, panic |-> r]

\* Faulty variant: no final panic(r), a payload of another type is recovered
HandleError_swallowsOthers(err, r) ==
    IF r = NoPanic THEN [err |-> err, panic |-> NoPanic]
    ELSE IF r.kind = "panicToReturn" THEN [err |-> err, panic |-> NoPanic]
    ELSE IF r.kind = "panicToError" THEN [err |-> r.err, panic |-> NoPanic]
    ELSE [err |-> err, panic |-> NoPanic]

HandleError(err, r) ==
    IF r = NoPanic THEN [err |-> err, panic |-> NoPanic]
    ELSE IF r.kind = "panicToReturn" THEN [err |-> err, panic |-> NoPanic]
    ELSE IF r.kind = "panicToError" THEN [err |-> r.err, panic |-> NoPanic]
    ELSE [err |-> err, panic |-> r]

\* Faulty variant: recovers the error-result signal without setError
Handle_dropsError(res, r) ==
    IF r = NoPanic THEN [res |-> res, panic |-> NoPanic]
    ELSE IF r.kind \in {"panicToReturn", "panicToError"} THEN [res |-> res, panic |-> NoPanic]
    ELSE [res |-> res, panic |-> r]

\* Faulty variant: the return signal is treated as the error-result signal
Handle_setsErrorOnReturn(res, r) ==
    IF r = NoPanic THEN [res |-> res, panic |-> NoPanic]
    ELSE IF r.kind \in {"panicToReturn", "panicToError"}
         THEN [res |-> setError(res, r.err), panic |-> NoPanic]
    ELSE [res |-> res, panic |-> r]

\* Faulty variant: with nothing recovered the named result is reset to ok
Handle_clearsOnReturn(res, r) ==
    IF r = NoPanic THEN [res |-> setError(res, Nil), panic |-> NoPanic]
    ELSE IF r.kind = "panicToReturn" THEN [res |-> res, panic |-> NoPanic]
    ELSE IF r.kind = "panicToError" THEN [res |-> setError(res, r.err), panic |-> NoPanic]
    ELSE [res |-> res, panic |-> r]

\* Faulty variant: the error is stored and the signal panicked again
Handle_storesAndRepanics(res, r) ==
    IF r = NoPanic THEN [res |-> res, panic |-> NoPanic]
    ELSE IF r.kind = "panicToReturn" THEN [res |-> res, panic |-> NoPanic]
    ELSE IF r.kind = "panicToError" THEN [res |-> setError(res, r.err), panic |-> r]
    ELSE [res |-> res, panic |-> r]

Handle(res, r) ==
    IF r = NoPanic THEN [res |-> res, panic |-> NoPanic]
    ELSE IF r.kind = "panicToReturn" THEN [res |-> res, panic |-> NoPanic]
    ELSE IF r.kind = "panicToError" THEN [res |-> setError(res, r.err), panic |-> NoPanic]
    ELSE [res |-> res, panic |-> r]

\* ------------------------------------------------------------------------
\* State
\* ------------------------------------------------------------------------
VARIABLES
    stack,      \* the activations, outermost first
    panicking,  \* the payload of the panic in flight, NoPanic when none
    mode,       \* "run", "inFn" (OrDoAndReturn: f returned, panic not yet raised), "crashed"
    retval,     \* what the function that returned last handed to its caller
    failure,    \* the message reported for a panic nothing recovered
    ops,        \* statements executed so far
    lastOp,     \* the terminal operation executed last (history)
    lastH,      \* the deferred handler that ran last (history)
    made,       \* the producer applied last, its arguments and the container it returned
    prog        \* the body of the function under observation (SpecSequence)

vars == <<stack, panicking, mode, retval, failure, ops, lastOp, lastH, made, prog>>

\* A function is one of these: what it returns and the handler it defers
\* at entry ("none": it defers no handler of the library).  HandleError
\* points at the named error, Handle at the named result container.
FrameKinds ==
    {<<"void", "none">>, <<"void", "HandleReturn">>,
     <<"error", "HandleError">>,
     <<"Status", "Handle">>, <<"Val", "Handle">>, <<"Vals", "Handle">>}

\* The zero value of a named result: Status{}, Val[T]{}, Vals[T, U]{}
ZeroRes(ret) ==
    CASE ret = "Val" -> [err |-> Nil, type |-> "Val", v |-> 0]
      [] ret = "Vals" -> [err |-> Nil, type |-> "Vals", v0 |-> 0, v1 |-> 0]
      [] OTHER -> [err |-> Nil, type |-> "Status"]

NewFrame(k) ==
    [ret |-> k[1], handler |-> k[2], res |-> ZeroRes(k[1]), err |-> Nil, pc |-> 0]

IsResult(ret) == ret \in {"Status", "Val", "Vals"}

\* Containers application code constructs
Containers ==
    {Ok} \cup {Error(NewError(m)) : m \in ErrMsgs}
    \cup {NewVal(v) : v \in Values} \cup {ValError(NewError(m)) : m \in ErrMsgs}
    \cup {NewVals(v, 0) : v \in Values} \cup {ValsError(NewError(m)) : m \in ErrMsgs}

\* The containers a statement can apply a terminal operation to: a freshly
\* constructed one, or the one the last callee returned.
Available ==
    Containers \cup (IF IsResult(retval.ret) THEN {retval.res} ELSE {})

NoRet == [ret |-> "none", res |-> Ok, err |-> Nil]

NoOp ==
    [op |-> "none", c |-> Ok, ctx |-> "", fn |-> "", use |-> <<>>, calls |-> <<>>,
     ret |-> <<>>,
     returned |-> TRUE, raised |-> NoPanic, stack |-> <<>>]

\* No producer has been applied
NoMade == [f |-> "none", err |-> Nil, vs |-> <<>>, s |-> <<>>, i |-> 0, out |-> Ok]

NoH ==
    [handler |-> "none", level |-> 0, r |-> NoPanic, out |-> NoPanic,
     before |-> NewFrame(<<"void", "none">>), after |-> NewFrame(<<"void", "none">>)]

\* Faulty variant: the deferred call of the outermost activation runs
Top_outermost == stack[1]

Top == stack[Len(stack)]

Running == mode = "run" /\ panicking = NoPanic /\ stack # <<>> /\ ops < MaxOps

\* The stack with one more statement of the innermost activation executed
Step == [stack EXCEPT ![Len(stack)].pc = @ + 1]

Init ==
    /\ stack = <<>>
    /\ panicking = NoPanic
    /\ mode = "run"
    /\ retval = NoRet
    /\ failure = ""
    /\ ops = 0
    /\ lastOp = NoOp
    /\ lastH = NoH
    /\ made = NoMade
    /\ prog = <<>>

\* A statement that calls a function of kind k (the entry point when the
\* stack is empty).
Call(k) ==
    /\ mode = "run" /\ panicking = NoPanic /\ ops < MaxOps
    /\ Len(stack) < MaxDepth
    /\ stack' = Append(IF stack = <<>> THEN stack ELSE Step, NewFrame(k))
    /\ ops' = ops + 1
    /\ retval' = NoRet
    /\ lastOp' = NoOp
    /\ lastH' = NoH
    /\ UNCHANGED <<panicking, mode, failure, made, prog>>

\* The argument x of a terminal operation on the container c as the
\* operation reads it: on an ok container every operation returns before
\* it looks at its context or callback, so the history records none.
Read(c, x) == IF c.err = Nil THEN "" ELSE x

\* c.OrError(e) as a statement of the innermost activation
DoOrError(c, e) ==
    /\ Running
    /\ LET o == OrError(c, e) IN
        /\ stack' = Step
        /\ panicking' = o.panic
        /\ lastOp' = [op |-> "OrError", c |-> c, ctx |-> Read(c, e), fn |-> "", use |-> <<>>,
                      calls |-> <<>>,
                      ret |-> o.ret, returned |-> o.panic = NoPanic,
                      raised |-> o.panic, stack |-> Step]
    /\ ops' = ops + 1
    /\ lastH' = NoH
    /\ UNCHANGED <<mode, retval, failure, made, prog>>

\* c.OrPanic(p) as a statement of the innermost activation
DoOrPanic(c, p) ==
    /\ Running
    /\ LET o == OrPanic(c, p) IN
        /\ stack' = Step
        /\ panicking' = o.panic
        /\ lastOp' = [op |-> "OrPanic", c |-> c, ctx |-> Read(c, p), fn |-> "", use |-> <<>>,
                      calls |-> <<>>,
                      ret |-> o.ret, returned |-> o.panic = NoPanic,
                      raised |-> o.panic, stack |-> Step]
    /\ ops' = ops + 1
    /\ lastH' = NoH
    /\ UNCHANGED <<mode, retval, failure, made, prog>>

\* The defaults given to OrUse: a Val takes the first, a Vals both
Defaults == {<<7, 8>>}

\* x := c.OrUse(s0) / x, y := c.OrUse(s0, s1) as a statement of the
\* innermost activation
DoOrUse(c, s0, s1) ==
    /\ Running
    /\ c.type \in {"Val", "Vals"}
    /\ stack' = Step
    /\ lastOp' = [op |-> "OrUse", c |-> c, ctx |-> "", fn |-> "",
                  use |-> IF c.type = "Val" THEN <<s0>> ELSE <<s0, s1>>,
                  calls |-> <<>>, ret |-> OrUse(c, s0, s1), returned |-> TRUE,
                  raised |-> NoPanic, stack |-> Step]
    /\ ops' = ops + 1
    /\ lastH' = NoH
    /\ UNCHANGED <<panicking, mode, retval, failure, made, prog>>

\* The callbacks handed to OrDoAndReturn: closures over the named results
\* of the function that calls it.  "setOk" is func(error) { v = result.Ok() },
\* "setErr" assigns the error it receives, "panic" panics itself.
Fns == {"noop", "setOk", "setErr", "panic"}

OkRes(ret) ==
    CASE ret = "Val" -> NewVal(1)
      [] ret = "Vals" -> NewVals(1, 0)
      [] OTHER -> Ok

ErrRes(ret, e) ==
    CASE ret = "Val" -> ValError(e)
      [] ret = "Vals" -> ValsError(e)
      [] OTHER -> Error(e)

\* The activation f after its callback fn ran with argument e
ApplyFn(fn, f, e) ==
    CASE fn = "setOk" /\ IsResult(f.ret) -> [f EXCEPT !.res = OkRes(f.ret)]
      [] fn = "setErr" /\ IsResult(f.ret) -> [f EXCEPT !.res = ErrRes(f.ret, e)]
      [] fn = "setErr" /\ f.ret = "error" -> [f EXCEPT !.err = e]
      [] OTHER -> f

\* c.OrDoAndReturn(fn) up to the return of fn: on an ok container the
\* operation returns; otherwise fn has run and the panic is still to come
\* (or fn itself panicked).
DoOrDoAndReturn(c, fn) ==
    /\ Running
    /\ LET o == OrDoAndReturn(c)
           invoked == o.args # <<>>
           fnPanics == invoked /\ fn = "panic"
           after == IF invoked
                    THEN [Step EXCEPT ![Len(stack)] = ApplyFn(fn, @, o.args[Len(o.args)])]
                    ELSE Step
           raised == IF fnPanics THEN panicForeign("Expected panic") ELSE NoPanic
       IN
        /\ stack' = after
        /\ panicking' = raised
        /\ mode' = IF ~fnPanics /\ o.panic # NoPanic THEN "inFn" ELSE "run"
        /\ lastOp' = [op |-> "OrDoAndReturn", c |-> c, ctx |-> "", fn |-> Read(c, fn),
                      use |-> <<>>, calls |-> o.args, ret |-> o.ret,
                      returned |-> ~fnPanics /\ o.panic = NoPanic,
                      raised |-> raised, stack |-> after]
    /\ ops' = ops + 1
    /\ lastH' = NoH
    /\ UNCHANGED <<retval, failure, made, prog>>

\* s.OrDo(fn) as a statement of the innermost activation: fn, if invoked,
\* runs to its end (or panics itself), then OrDo returns.
DoOrDo(c, fn) ==
    /\ Running
    /\ c.type = "Status"
    /\ LET o == StatusOrDo(c)
           invoked == o.args # <<>>
           fnPanics == invoked /\ fn = "panic"
           after == IF invoked
                    THEN [Step EXCEPT ![Len(stack)] = ApplyFn(fn, @, o.args[Len(o.args)])]
                    ELSE Step
           raised == IF fnPanics THEN panicForeign("Expected panic") ELSE NoPanic
       IN
        /\ stack' = after
        /\ panicking' = raised
        /\ lastOp' = [op |-> "OrDo", c |-> c, ctx |-> "", fn |-> Read(c, fn),
                      use |-> <<>>,
                      calls |-> o.args, ret |-> <<>>, returned |-> ~fnPanics,
                      raised |-> raised, stack |-> after]
    /\ ops' = ops + 1
    /\ lastH' = NoH
    /\ UNCHANGED <<mode, retval, failure, made, prog>>

\* OrDoAndReturn after fn returned: panic(panicToReturn{err: v.err})
RaiseReturn ==
    /\ mode = "inFn"
    /\ LET o == OrDoAndReturn(lastOp.c) IN
        /\ panicking' = o.panic
        /\ lastOp' = [lastOp EXCEPT !.raised = o.panic]
    /\ mode' = "run"
    /\ UNCHANGED <<stack, retval, failure, ops, lastH, made, prog>>

\* panic("Expected panic") in application code
DoPanic ==
    /\ Running
    /\ stack' = Step
    /\ panicking' = panicForeign("Expected panic")
    /\ lastOp' = [NoOp EXCEPT !.op = "panic", !.returned = FALSE,
                              !.raised = panicForeign("Expected panic"), !.stack = Step]
    /\ ops' = ops + 1
    /\ lastH' = NoH
    /\ UNCHANGED <<mode, retval, failure, made, prog>>

\* What an assignment to the named result of the activation f can store
AssignChoices(f) ==
    IF IsResult(f.ret)
    THEN {OkRes(f.ret)} \cup {ErrRes(f.ret, NewError(m)) : m \in ErrMsgs}
    ELSE {}

\* v = result.Errorf(...) / v = result.Ok(): the innermost activation
\* assigns its named result
Assign(c) ==
    /\ Running
    /\ c \in AssignChoices(Top)
    /\ stack' = [Step EXCEPT ![Len(stack)].res = c]
    /\ ops' = ops + 1
    /\ lastOp' = NoOp
    /\ lastH' = NoH
    /\ UNCHANGED <<panicking, mode, retval, failure, made, prog>>

\* The deferred call of the activation f with recover() = r: the activation
\* as the handler leaves it and the payload it panics with again.
RunDeferred(f, r) ==
    CASE f.handler = "HandleReturn" -> [frame |-> f, panic |-> HandleReturn(r)]
      [] f.handler = "HandleError" ->
            LET h == HandleError(f.err, r) IN
            [frame |-> [f EXCEPT !.err = h.err], panic |-> h.panic]
      [] f.handler = "Handle" ->
            LET h == Handle(f.res, r) IN
            [frame |-> [f EXCEPT !.res = h.res], panic |-> h.panic]
      [] OTHER -> [frame |-> f, panic |-> r]

RetOf(f) == [ret |-> f.ret, res |-> f.res, err |-> f.err]

\* Faulty variant: the activation stays on the stack when its deferred call ran
Pop_keepsActivation == stack

Pop == SubSeq(stack, 1, Len(stack) - 1)

\* What a return statement of the activation f can return
ReturnChoices(f) ==
    CASE IsResult(f.ret) ->
            {[f EXCEPT !.res = c] : c \in {x \in Available \cup {f.res} : x.type = f.ret}}
      [] f.ret = "error" ->
            {[f EXCEPT !.err = e] : e \in {Nil} \cup {NewError(m) : m \in ErrMsgs}}
      [] OTHER -> {f}

\* A return statement of the innermost activation: the results are set,
\* the deferred handler runs with no panic in flight, the caller goes on.
Return(g) ==
    /\ Running
    /\ g \in ReturnChoices(Top)
    /\ LET f == [g EXCEPT !.pc = @ + 1]
           d == RunDeferred(f, NoPanic)
       IN
        /\ stack' = Pop
        /\ panicking' = d.panic
        /\ retval' = IF d.panic = NoPanic THEN RetOf(d.frame) ELSE retval
        /\ lastH' = [handler |-> f.handler, level |-> Len(stack), r |-> NoPanic,
                     out |-> d.panic, before |-> f, after |-> d.frame]
    /\ ops' = ops + 1
    /\ lastOp' = NoOp
    /\ UNCHANGED <<mode, failure, made, prog>>

\* A panic in flight leaves the innermost activation: its deferred handler
\* runs with recover() = the payload and either recovers, so that the
\* function returns its named results to its caller, or panics again.
Unwind ==
    /\ mode = "run" /\ panicking # NoPanic /\ stack # <<>>
    /\ LET f == Top
           d == RunDeferred(f, panicking)
       IN
        /\ stack' = Pop
        /\ panicking' = d.panic
        /\ retval' = IF d.panic = NoPanic THEN RetOf(d.frame) ELSE retval
        /\ lastH' = [handler |-> f.handler, level |-> Len(stack), r |-> panicking,
                     out |-> d.panic, before |-> f, after |-> d.frame]
    /\ UNCHANGED <<mode, failure, ops, lastOp, made, prog>>

\* The text reported for a panic value: Error() of an error, the string itself
PanicMessage(r) ==
    CASE r.kind = "panicToReturn" -> panicToReturnError(r)
      [] r.kind = "panicToError" -> panicToErrorError(r)
      [] OTHER -> r.err.msg

\* The panic left the outermost activation: it is reported
Crash ==
    /\ mode = "run" /\ panicking # NoPanic /\ stack = <<>>
    /\ mode' = "crashed"
    /\ failure' = PanicMessage(panicking)
    /\ UNCHANGED <<stack, panicking, retval, ops, lastOp, lastH, made, prog>>

Next ==
    \/ \E k \in FrameKinds : Call(k)
    \/ \E c \in Available, e \in Ctxs : DoOrError(c, e)
    \/ \E c \in Available, p \in Ctxs : DoOrPanic(c, p)
    \/ \E c \in Available, fn \in Fns : DoOrDoAndReturn(c, fn)
    \/ RaiseReturn
    \/ \E c \in Available, s \in Defaults : DoOrUse(c, s[1], s[2])
    \/ \E c \in Available, fn \in Fns : DoOrDo(c, fn)
    \/ DoPanic
    \/ \E c \in AssignChoices(IF stack = <<>> THEN NewFrame(<<"void", "none">>) ELSE Top) : Assign(c)
    \/ \E g \in ReturnChoices(IF stack = <<>> THEN NewFrame(<<"void", "none">>) ELSE Top) : Return(g)
    \/ Unwind
    \/ Crash

Spec == Init /\ [][Next]_vars

\* The programs that only call functions and raise signals: every call
\* stack with every assignment of handlers to its activations, OrError and
\* OrDoAndReturn on every container.
NextUnwinding ==
    \/ \E k \in FrameKinds : Call(k)
    \/ \E c \in Available, e \in Ctxs : DoOrError(c, e)
    \/ \E c \in Available, fn \in Fns : DoOrDoAndReturn(c, fn)
    \/ RaiseReturn
    \/ Unwind
    \/ Crash

\* A panic in flight proceeds by itself: the Go runtime runs the deferred
\* call of each activation in turn and ends the program when none is left.
\* Statements of the program are under no such obligation (a run may stop
\* anywhere).
SpecUnwinding ==
    Init /\ [][NextUnwinding]_vars /\ WF_vars(Unwind) /\ WF_vars(Crash)

\* ------------------------------------------------------------------------
\* A function of the shape of the readme's sendNewStory: it defers Handle
\* or HandleError, applies OrError to one container after the other and
\* returns its ok result.  prog is its body, one entry per OrError.
\* ------------------------------------------------------------------------
Stmts == [c : Containers, ctx : Ctxs]

Bodies == UNION {[1..n -> Stmts] : n \in 0..MaxSeq}

SequenceKinds == {k \in FrameKinds : k[2] \in {"Handle", "HandleError"}}

InitSequence ==
    /\ stack = <<>>
    /\ panicking = NoPanic
    /\ mode = "run"
    /\ retval = NoRet
    /\ failure = ""
    /\ ops = 0
    /\ lastOp = NoOp
    /\ lastH = NoH
    /\ made = NoMade
    /\ prog \in Bodies

\* The function is called
Enter(k) ==
    /\ ops = 0
    /\ stack = <<>>
    /\ Call(k)

\* The next statement of the body: prog[pc + 1].c.OrError(prog[pc + 1].ctx)
NextStmt ==
    /\ stack # <<>>
    /\ Top.pc < Len(prog)
    /\ DoOrError(prog[Top.pc + 1].c, prog[Top.pc + 1].ctx)

\* return result.Ok() / return nil at the end of the body
Finish ==
    /\ stack # <<>>
    /\ Top.pc = Len(prog)
    /\ Return(IF IsResult(Top.ret) THEN [Top EXCEPT !.res = OkRes(Top.ret)]
                                   ELSE [Top EXCEPT !.err = Nil])

NextSequence ==
    \/ \E k \in SequenceKinds : Enter(k)
    \/ NextStmt
    \/ Finish
    \/ Unwind

SpecSequence == InitSequence /\ [][NextSequence]_vars

\* ------------------------------------------------------------------------
\* The producers applied to arguments: each step is one call of a producer,
\* recorded with its arguments.  Nothing else of the program runs.
\* ------------------------------------------------------------------------
\* Errors a caller may hand to a producer: the parameter type admits nil
Errs == {Nil} \cup {NewError(m) : m \in ErrMsgs}

\* Values handed to TryVal / TryVals and elements of slices
Elems == {0, 1, 2}

Slices == UNION {[1..n -> Elems] : n \in 0..MaxLen}

Indices == (0 - MaxIdx)..MaxIdx

\* Keys of maps (int keys, as in the tests), the maps handed to FromMap
\* (the empty map included) and the keys asked for
MapKeys == (0 - 1)..MaxKey

Maps == UNION {[d -> {0, 1}] : d \in SUBSET MapKeys}

AskedKeys == (0 - 2)..(MaxKey + 1)

Run == <<stack, panicking, mode, retval, failure, ops, lastOp, lastH>>

Produce(f, err, vs, s, i, out) ==
    /\ made' = [f |-> f, err |-> err, vs |-> vs, s |-> s, i |-> i, out |-> out]
    /\ UNCHANGED <<Run, prog>>

CallTry(err) == Produce("Try", err, <<>>, <<>>, 0, Try(err))

CallTryVal(v, err) == Produce("TryVal", err, <<v>>, <<>>, 0, TryVal(v, err))

CallTryVals(v0, v1, err) == Produce("TryVals", err, <<v0, v1>>, <<>>, 0, TryVals(v0, v1, err))

CallError(err) == Produce("Error", err, <<>>, <<>>, 0, Error(err))

CallValError(err) == Produce("ValError", err, <<>>, <<>>, 0, ValError(err))

CallValsError(err) == Produce("ValsError", err, <<>>, <<>>, 0, ValsError(err))

CallFromSlice(s, i) == Produce("FromSlice", Nil, <<>>, s, i, FromSlice(s, i))

\* The record keeps the map in s and the key in i
CallFromMap(m, k) == Produce("FromMap", Nil, <<>>, m, k, FromMap(m, k))

NextProducers ==
    \/ \E err \in Errs : CallTry(err)
    \/ \E v \in Elems, err \in Errs : CallTryVal(v, err)
    \/ \E v0 \in Elems, v1 \in Elems, err \in Errs : CallTryVals(v0, v1, err)
    \/ \E err \in Errs : CallError(err)
    \/ \E err \in Errs : CallValError(err)
    \/ \E err \in Errs : CallValsError(err)
    \/ \E s \in Slices, i \in Indices : CallFromSlice(s, i)
    \/ \E m \in Maps, k \in AskedKeys : CallFromMap(m, k)

SpecProducers == Init /\ [][NextProducers]_vars

\* ------------------------------------------------------------------------
\* Vocabulary of the properties
\* ------------------------------------------------------------------------
\* The value(s) an ok container holds
Held(c) ==
    CASE c.type = "Val" -> <<c.v>>
      [] c.type = "Vals" -> <<c.v0, c.v1>>
      [] OTHER -> <<>>

\* The call stack when the last terminal operation raised, and its depth
RaiseStack == lastOp.stack

RaiseDepth == Len(lastOp.stack)

\* The activation that executed the last terminal operation
Raiser == lastOp.stack[Len(lastOp.stack)]

\* The last terminal operation was applied to an error container
OnError(op) == lastOp.op = op /\ lastOp.c.err # Nil

OnOk(op) == lastOp.op = op /\ lastOp.c.err = Nil

\* The handler that ran last had a panic to recover / recovered it
Saw(kind) == lastH.r # NoPanic /\ lastH.r.kind = kind

Intercepted == lastH.r # NoPanic /\ lastH.out = NoPanic

\* The handlers of the activations the signal left before it reached the
\* handler that ran last
Passed == {RaiseStack[i].handler : i \in (lastH.level + 1)..RaiseDepth}

\* The function owning the handler that ran last returned normally, from
\* the state it had when the signal was raised, to its caller
ReturnedFromRaise ==
    /\ panicking = NoPanic
    /\ mode = "run"
    /\ lastH.level \in 1..RaiseDepth
    /\ lastH.before = RaiseStack[lastH.level]
    /\ stack = SubSeq(RaiseStack, 1, lastH.level - 1)
    /\ retval = RetOf(lastH.after)

\* s occurs in t
Contains(t, s) ==
    \E i \in 1..(Len(t) - Len(s) + 1) : SubSeq(t, i, i + Len(s) - 1) = s

EndsWith(t, s) ==
    Len(s) <= Len(t) /\ SubSeq(t, Len(t) - Len(s) + 1, Len(t)) = s

\* ------------------------------------------------------------------------
\* C1: a function that deferred Handle(&res) and whose body calls OrError
\* on an error container returns, through res, a container whose error is
\* the error the error-result signal carries; nothing of its body runs
\* after the call (the activation is left as it was when the signal was
\* raised, its explicit return included).
\* ------------------------------------------------------------------------
C1_HandleReturnsCarriedError ==
    (OnError("OrError") /\ Raiser.handler = "Handle") =>
        /\ ~lastOp.returned
        /\ lastOp.raised.kind = "panicToError"
        /\ \/ panicking = lastOp.raised /\ stack = RaiseStack /\ lastH = NoH
           \/ /\ lastH.handler = "Handle"
              /\ lastH.level = RaiseDepth
              /\ lastH.r = lastOp.raised
              /\ ReturnedFromRaise
              /\ retval.res.err = lastOp.raised.err
              /\ retval.res.type = Raiser.ret

C1_Witness ==
    /\ OnError("OrError") /\ Raiser.handler = "Handle" /\ Raiser.ret = "Val"
    /\ Intercepted /\ lastH.level = RaiseDepth
    /\ retval.res.err = NewError("Context: Test error")

\* ------------------------------------------------------------------------
\* C2: OrError(ctx) on an error container (Status, Val, Vals) does not
\* return: it raises the error-result signal, whose error reads
\* ctx + ": " + the message of the container's error; the signal passes
\* every activation without Handle or HandleError unchanged, and the nearest
\* activation with Handle or HandleError receives exactly it.
\* ------------------------------------------------------------------------
C2_OrErrorRaisesWrappedError ==
    OnError("OrError") =>
        /\ ~lastOp.returned
        /\ lastOp.raised = panicToError(NewError(lastOp.ctx \o ": " \o lastOp.c.err.msg))
        /\ panicking \in {lastOp.raised, NoPanic}
        /\ lastH # NoH =>
              /\ lastH.r = lastOp.raised
              /\ Passed \subseteq {"none", "HandleReturn"}
              /\ IF lastH.handler \in {"Handle", "HandleError"}
                 THEN panicking = NoPanic
                 ELSE panicking = lastOp.raised

C2_Witness ==
    /\ OnError("OrError") /\ lastOp.c.type = "Vals"
    /\ RaiseDepth = 3 /\ Passed = {"none", "HandleReturn"}
    /\ lastH.handler = "HandleError" /\ lastH.level = 1
    /\ lastH.r.err.msg = "result error: Test error"

\* ------------------------------------------------------------------------
\* C3: when an error-result signal reaches the handler of a function that
\* deferred HandleError(&err), the handler stores the error the signal
\* carries in err and the function returns it as its error.
\* ------------------------------------------------------------------------
C3_HandleErrorWritesCarriedError ==
    (lastH.handler = "HandleError" /\ Saw("panicToError")) =>
        /\ lastH.r = lastOp.raised
        /\ lastH.out = NoPanic
        /\ lastH.after = [lastH.before EXCEPT !.err = lastH.r.err]
        /\ ReturnedFromRaise
        /\ retval.ret = "error"
        /\ retval.err = lastOp.raised.err

C3_Witness ==
    /\ OnError("OrError") /\ RaiseDepth = 1 /\ Raiser.handler = "HandleError"
    /\ Intercepted
    /\ retval.err = NewError("result error: Test error")

\* ------------------------------------------------------------------------
\* C4: a function that deferred only HandleReturn and calls OrError on an
\* error container does not intercept the error-result signal: HandleReturn
\* panics again with it, and when no activation with Handle or HandleError
\* encloses the call the signal is never intercepted and is what is
\* reported when it leaves the outermost activation.
\* ------------------------------------------------------------------------
C4_HandleReturnPassesErrorSignal ==
    (OnError("OrError") /\ Raiser.handler = "HandleReturn") =>
        /\ ~lastOp.returned
        /\ lastOp.raised.kind = "panicToError"
        /\ (lastH # NoH /\ lastH.level = RaiseDepth) =>
              lastH.out = lastOp.raised /\ lastH.after = lastH.before
        /\ (\A i \in 1..RaiseDepth : RaiseStack[i].handler \notin {"Handle", "HandleError"}) =>
              /\ panicking = lastOp.raised
              /\ stack = <<>> => (lastH.level = 1 /\ lastH.out = lastOp.raised)
              /\ mode = "crashed" => failure = panicToErrorError(lastOp.raised)

C4_Witness ==
    /\ OnError("OrError") /\ Raiser.handler = "HandleReturn"
    /\ RaiseDepth = 2 /\ RaiseStack[1].handler = "HandleReturn"
    /\ mode = "crashed" /\ panicking.kind = "panicToError"

\* ------------------------------------------------------------------------
\* C5: a handler (HandleReturn, HandleError, Handle) that recovers a payload
\* that is neither signal panics again with the same payload and writes
\* nothing: the named error and result of its function are unchanged.
\* ------------------------------------------------------------------------
C5_ForeignPanicPassesThrough ==
    (lastH.handler # "none" /\ lastH.r # NoPanic
        /\ lastH.r.kind \notin {"panicToReturn", "panicToError"}) =>
        /\ lastH.out = lastH.r
        /\ panicking = lastH.r
        /\ lastH.r = lastOp.raised
        /\ lastH.after = lastH.before
        /\ lastH.before = RaiseStack[lastH.level]

C5_Witness ==
    /\ lastOp.op = "panic" /\ RaiseDepth = 3
    /\ {RaiseStack[i].handler : i \in 1..3} = {"HandleReturn", "HandleError", "Handle"}
    /\ mode = "crashed" /\ failure = "Expected panic"
    /\ panicking = panicForeign("Expected panic")

\* ------------------------------------------------------------------------
\* C6: OrPanic(ctx) on an error container panics with an error that reads
\* ctx + ": " + the message of the container's error, and no handler of the
\* library recovers it, whatever the enclosing activations deferred: it is
\* what is reported at the top.  On an ok container OrPanic returns the held
\* value(s) and panics with nothing.
\* ------------------------------------------------------------------------
C6_OrPanicIsNeverRecovered ==
    /\ OnOk("OrPanic") =>
        /\ lastOp.returned
        /\ lastOp.ret = Held(lastOp.c)
        /\ lastOp.raised = NoPanic
        /\ panicking = NoPanic
        /\ stack = RaiseStack
    /\ OnError("OrPanic") =>
        /\ ~lastOp.returned
        /\ lastOp.raised = panicError(NewError(lastOp.ctx \o ": " \o lastOp.c.err.msg))
        /\ panicking = lastOp.raised
        /\ lastH # NoH => (lastH.r = lastOp.raised /\ lastH.out = lastOp.raised)
        /\ stack = SubSeq(RaiseStack, 1, Len(stack))
        /\ mode = "crashed" => failure = lastOp.ctx \o ": " \o lastOp.c.err.msg

C6_Witness ==
    /\ OnError("OrPanic") /\ lastOp.c.type = "Vals" /\ RaiseDepth = 3
    /\ {RaiseStack[i].handler : i \in 1..3} = {"HandleReturn", "HandleError", "Handle"}
    /\ mode = "crashed" /\ failure = "Context: Test error"

\* ------------------------------------------------------------------------
\* C7: OrDoAndReturn(fn) on an error container invokes fn once, with the
\* container's own error, and raises the return signal only after fn has
\* returned (not at all when fn itself panics); on an ok container fn is not
\* invoked, nothing is raised and the held value(s) are returned.
\* ------------------------------------------------------------------------
C7_OrDoAndReturnCallsFnOnce ==
    /\ OnOk("OrDoAndReturn") =>
        /\ lastOp.calls = <<>>
        /\ lastOp.returned
        /\ lastOp.ret = Held(lastOp.c)
        /\ lastOp.raised = NoPanic
        /\ panicking = NoPanic /\ mode = "run"
        /\ stack = RaiseStack
    /\ OnError("OrDoAndReturn") =>
        /\ lastOp.calls = <<lastOp.c.err>>
        /\ ~lastOp.returned
        /\ mode = "inFn" => (panicking = NoPanic /\ lastOp.raised = NoPanic)
        /\ (mode # "inFn" /\ lastOp.fn # "panic") =>
              lastOp.raised = panicToReturn(lastOp.c.err)
        /\ lastOp.fn = "panic" =>
              (mode # "inFn" /\ lastOp.raised = panicForeign("Expected panic"))

C7_Witness ==
    /\ OnError("OrDoAndReturn") /\ lastOp.c.type = "Val"
    /\ lastOp.c.err.msg = "Context: Test error"
    /\ lastOp.calls = <<NewError("Context: Test error")>>
    /\ panicking = panicToReturn(NewError("Context: Test error"))

\* ------------------------------------------------------------------------
\* C8: the return signal of OrDoAndReturn is intercepted by the nearest
\* enclosing activation that deferred a handler (HandleReturn, HandleError
\* or Handle): that function returns normally to its caller and nothing of
\* its body runs after the call that raised; activations without a handler
\* are passed.
\* ------------------------------------------------------------------------
C8_ReturnSignalStopsAtNearestHandler ==
    (lastOp.raised.kind = "panicToReturn" /\ lastH # NoH) =>
        /\ lastH.r = lastOp.raised
        /\ Passed \subseteq {"none"}
        /\ IF lastH.handler = "none"
           THEN panicking = lastOp.raised /\ lastH.after = lastH.before
           ELSE ReturnedFromRaise /\ lastH.out = NoPanic

C8_Witness ==
    /\ lastOp.raised.kind = "panicToReturn" /\ RaiseDepth = 3
    /\ Passed = {"none"} /\ lastH.level = 2 /\ lastH.handler = "HandleReturn"
    /\ panicking = NoPanic /\ Len(stack) = 1

\* ------------------------------------------------------------------------
\* C9: Handle and HandleError write nothing when they intercept the return
\* signal: the named result and the named error are returned as they were
\* when the signal was raised (an assignment by the fn of OrDoAndReturn
\* included), whatever error the signal carries.
\* ------------------------------------------------------------------------
C9_ReturnSignalWritesNothing ==
    (lastH.handler \in {"Handle", "HandleError"} /\ Saw("panicToReturn")) =>
        /\ lastH.after = lastH.before
        /\ lastH.before = RaiseStack[lastH.level]
        /\ retval = RetOf(RaiseStack[lastH.level])

C9_Witness ==
    /\ OnError("OrDoAndReturn") /\ lastOp.fn = "setOk"
    /\ lastH.handler = "Handle" /\ Saw("panicToReturn") /\ lastH.level = RaiseDepth
    /\ retval.res = NewVal(1)

\* ------------------------------------------------------------------------
\* C10: a signal of OrError or OrDoAndReturn that no handler intercepted is
\* reported with a message that names the missing directives as
\* result.HandleReturn(), result.Handle(&r) and result.HandleError(&err)
\* (return signal) or result.Handle(&r) and result.HandleError(&err)
\* (error-result signal), and that ends, for the error-result signal, with
\* ctx + ": " + the message of the container's error.
\* ------------------------------------------------------------------------
Names(msg, directive) == Contains(msg, "defer result." \o directive \o "(")

C10_ReportNamesTheHandlers ==
    /\ (mode = "crashed" /\ panicking.kind = "panicToReturn") =>
          /\ Names(failure, "HandleReturn")
          /\ Names(failure, "Handle")
          /\ Names(failure, "HandleError")
    /\ (mode = "crashed" /\ panicking.kind = "panicToError") =>
          /\ Names(failure, "Handle")
          /\ Names(failure, "HandleError")
          /\ EndsWith(failure, ": " \o lastOp.ctx \o ": " \o lastOp.c.err.msg)

\* What does hold of the report: the text of the two Error methods
C10_ReportAsCoded ==
    /\ (mode = "crashed" /\ panicking.kind = "panicToReturn") =>
          /\ Names(failure, "HandleReturn")
          /\ Names(failure, "HandleStatus")
          /\ Names(failure, "HandleErr")
    /\ (mode = "crashed" /\ panicking.kind = "panicToError") =>
          /\ Names(failure, "HandleStatus")
          /\ Names(failure, "HandleErr")
          /\ EndsWith(failure, ": " \o lastOp.ctx \o ": " \o lastOp.c.err.msg)

\* ------------------------------------------------------------------------
\* C11: OrError(ctx) on an ok container (Status, Val, Vals) returns the held
\* value(s) (none for Status) and nothing else happens: no signal is raised,
\* no handler runs, and the calling function goes on with its next statement
\* with its named results as they were.
\* ------------------------------------------------------------------------
C11_OrErrorOnOkReturnsHeld ==
    OnOk("OrError") =>
        /\ lastOp.returned
        /\ lastOp.ret = Held(lastOp.c)
        /\ lastOp.raised = NoPanic
        /\ panicking = NoPanic /\ mode = "run" /\ failure = ""
        /\ lastH = NoH
        /\ stack = RaiseStack

C11_Witness ==
    /\ OnOk("OrError") /\ lastOp.c = NewVal(1) /\ lastOp.ret = <<1>>
    /\ Top.handler = "HandleError" /\ Top.pc = 2 /\ Top.err = Nil
    /\ panicking = NoPanic

\* ------------------------------------------------------------------------
\* C12: every container of a reachable state (operands, named results, the
\* results handed to callers, also after a handler wrote them) is in exactly
\* one of two states: ok, where Ok() holds, Error() is empty and the held
\* value(s) can be taken out, or error, where Ok() fails, Error() is the
\* message and no value can be taken out.  The value fields of an error
\* container are zero; the only exception is a named result that was
\* assigned value(s) before Handle set its error, whose fields keep them
\* (undefined: no operation returns them).
\* ------------------------------------------------------------------------
ContainersInState ==
    {stack[i].res : i \in {j \in 1..Len(stack) : IsResult(stack[j].ret)}}
    \cup (IF IsResult(retval.ret) THEN {retval.res} ELSE {})
    \cup (IF lastOp.op \in {"none", "panic"} THEN {} ELSE {lastOp.c})
    \cup (IF IsResult(lastH.before.ret) THEN {lastH.before.res, lastH.after.res} ELSE {})

InOkState(c) ==
    /\ baseOk(c)
    /\ baseError(c) = ""
    /\ OrPanic(c, "p") = [panic |-> NoPanic, ret |-> Held(c)]

InErrorState(c) ==
    /\ ~baseOk(c)
    /\ c.err # Nil /\ baseError(c) = c.err.msg
    /\ OrPanic(c, "p").panic # NoPanic /\ OrPanic(c, "p").ret = <<>>

ZeroValued(c) == Held(c) \in {<<>>, <<0>>, <<0, 0>>}

\* The error was written by Handle: it is the error a signal carried
CarriedBySignal(err) == \E x \in Ctxs :
        /\ Len(err.msg) >= Len(x) + 2
        /\ SubSeq(err.msg, 1, Len(x) + 2) = x \o ": "

C13_NoOperationChangesContainer ==
    (lastH # NoH /\ IsResult(lastH.before.ret)) => lastH.after.res = lastH.before.res

\* ------------------------------------------------------------------------
\* C13 amended: no terminal operation changes a container (the named
\* results of all activations are after OrError, OrPanic and OrDoAndReturn
\* what they were before, unless the callback assigned one), HandleReturn
\* and HandleError change none, and Handle changes one only when it
\* intercepts the error-result signal: it then sets the error of the named
\* result container it points at and leaves its value(s) as they are.
\* ------------------------------------------------------------------------
TerminalOpStep ==
    /\ ops' = ops + 1
    /\ lastOp'.op \in {"OrError", "OrPanic", "OrDoAndReturn", "OrUse", "OrDo"}
    /\ lastOp'.fn \notin {"setOk", "setErr"}

HandlerChangesOnlyError ==
    (lastH # NoH /\ lastH.after.res # lastH.before.res) =>
        /\ lastH.handler = "Handle"
        /\ Saw("panicToError")
        /\ lastH.after.res = [lastH.before.res EXCEPT !.err = lastH.r.err]
        /\ Held(lastH.after.res) = Held(lastH.before.res)

C13_OnlyHandleSetsTheError ==
    /\ []HandlerChangesOnlyError
    /\ [][TerminalOpStep =>
            /\ Len(stack') = Len(stack)
            /\ \A i \in 1..Len(stack) :
                  stack'[i].res = stack[i].res /\ stack'[i].err = stack[i].err]_vars

C13_Witness ==
    /\ lastH.handler = "Handle" /\ Saw("panicToError")
    /\ lastH.before.res = NewVal(1)
    /\ lastH.after.res # lastH.before.res
    /\ lastH.after.res.err = NewError("result error: Test error")
    /\ lastH.after.res.v = 1
    /\ lastOp.stack[lastH.level].res = NewVal(1)


\* ------------------------------------------------------------------------
\* C14: when a function that installed a handler returns with no panic in
\* flight, the handler does nothing: the caller gets exactly what the
\* return statement returned (an error container stays that error
\* container, a nil error stays nil) and nothing is raised.
\* ------------------------------------------------------------------------
ReturnedNormally == lastH # NoH /\ lastH.handler # "none" /\ lastH.r = NoPanic

C14_HandlerIdleOnNormalReturn ==
    ReturnedNormally =>
        /\ lastH.out = NoPanic
        /\ lastH.after = lastH.before
        /\ retval = RetOf(lastH.before)
        /\ panicking = NoPanic /\ mode = "run" /\ failure = ""
        /\ Len(stack) = lastH.level - 1

C14_Witness ==
    /\ ReturnedNormally /\ lastH.handler = "Handle"
    /\ lastH.before.res = Error(NewError("Test error"))
    /\ retval.res = Error(NewError("Test error"))
    /\ panicking = NoPanic


\* ------------------------------------------------------------------------
\* C15: for every container of the three types, Ok() is true exactly when
\* the container holds no error; Error() is "" when the container is ok
\* and the message of the wrapped error otherwise. For a container Handle
\* wrote, that message is the one the signal carried.
\* ------------------------------------------------------------------------
C15_OkAndErrorReflectTheError ==
    /\ \A c \in ContainersInState :
          /\ baseOk(c) <=> c.err.nil
          /\ baseOk(c) => baseError(c) = ""
          /\ ~baseOk(c) => baseError(c) = c.err.msg /\ ~c.err.nil
    /\ (lastH.handler = "Handle" /\ Saw("panicToError") /\ Intercepted) =>
          /\ ~baseOk(retval.res)
          /\ baseError(retval.res) = lastH.r.err.msg

C15_Witness ==
    /\ lastH.handler = "Handle" /\ Saw("panicToError") /\ Intercepted
    /\ retval.res.type = "Vals"
    /\ ~baseOk(retval.res)
    /\ baseError(retval.res) = "Context: Test error"
    /\ \E c \in ContainersInState : c.type = "Vals" /\ baseOk(c) /\ baseError(c) = ""


\* ------------------------------------------------------------------------
\* C16: OrUse on an error Val or Vals returns exactly the given default(s),
\* on an ok one the held value(s) whatever the default(s); it raises no
\* signal and the calling function goes on.
\* ------------------------------------------------------------------------
C16_OrUseReturnsHeldOrDefault ==
    lastOp.op = "OrUse" =>
        /\ lastOp.c.type \in {"Val", "Vals"}
        /\ OnError("OrUse") => lastOp.ret = lastOp.use
        /\ OnOk("OrUse") => lastOp.ret = Held(lastOp.c)
        /\ lastOp.returned /\ lastOp.raised = NoPanic
        /\ panicking = NoPanic /\ mode = "run" /\ failure = ""
        /\ lastH = NoH
        /\ stack = RaiseStack

C16_Witness ==
    /\ OnError("OrUse")
    /\ lastOp.c = ValsError(NewError("Test error"))
    /\ lastOp.use = <<7, 8>>
    /\ lastOp.ret = <<7, 8>>
    /\ panicking = NoPanic /\ stack # <<>>

\* ------------------------------------------------------------------------
\* C17: Status.OrDo(fn) does not invoke fn on an ok Status; on an error
\* Status it invokes fn once, with the held error, and when fn has
\* returned OrDo returns to its caller: no signal is raised and the calling
\* function goes on with its next statement.
\* ------------------------------------------------------------------------
C17_OrDoCallsFnAndReturns ==
    lastOp.op = "OrDo" =>
        /\ lastOp.c.type = "Status"
        /\ OnOk("OrDo") => lastOp.calls = <<>> /\ lastOp.returned /\ stack = RaiseStack
        /\ OnError("OrDo") => lastOp.calls = <<lastOp.c.err>>
        /\ lastOp.raised.kind \notin {"panicToReturn", "panicToError"}
        /\ (OnError("OrDo") /\ lastOp.fn # "panic") =>
              /\ lastOp.returned /\ lastOp.raised = NoPanic
              /\ panicking = NoPanic /\ mode = "run" /\ failure = ""
              /\ lastH = NoH
              /\ stack = RaiseStack
              /\ Top.pc = Raiser.pc

C17_Witness ==
    /\ OnError("OrDo") /\ lastOp.fn = "setOk"
    /\ lastOp.calls = <<NewError("Test error")>>
    /\ lastOp.returned /\ panicking = NoPanic
    /\ Top.ret = "Status" /\ Top.res = Ok /\ Top.pc = 2


\* ------------------------------------------------------------------------
\* C18: Try, TryVal and TryVals return, when err is present, an error
\* container holding err, the given value(s) discarded; otherwise an ok
\* container that wraps exactly the given value(s).
\* ------------------------------------------------------------------------
TypeOf(f) ==
    CASE f \in {"Try", "Error"} -> "Status"
      [] f \in {"TryVal", "ValError", "FromSlice"} -> "Val"
      [] OTHER -> "Vals"

C18_TryWrapsErrorOrValues ==
    made.f \in {"Try", "TryVal", "TryVals"} =>
        /\ made.out.type = TypeOf(made.f)
        /\ made.err # Nil =>
              /\ ~baseOk(made.out)
              /\ made.out.err = made.err
              /\ baseError(made.out) = made.err.msg
              /\ ZeroValued(made.out)
              /\ OrError(made.out, "Context").ret = <<>>
        /\ made.err = Nil =>
              /\ baseOk(made.out)
              /\ Held(made.out) = made.vs
              /\ OrError(made.out, "Context") = [panic |-> NoPanic, ret |-> made.vs]

C18_Witness ==
    /\ made.f = "TryVal" /\ made.vs = <<2>> /\ made.err = NewError("Test error")
    /\ made.out = ValError(NewError("Test error"))
    /\ ~baseOk(made.out)

\* ------------------------------------------------------------------------
\* C19: Error, ValError and ValsError return a container in the error
\* state (Ok() is false) for every err, the nil error included.
\* ------------------------------------------------------------------------
C19_ErrorProducersMakeErrorState ==
    made.f \in {"Error", "ValError", "ValsError"} =>
        /\ made.out.type = TypeOf(made.f)
        /\ ~baseOk(made.out)

\* ------------------------------------------------------------------------
\* C20: FromSlice(s, i) returns an ok container wrapping s[i] exactly when
\* 0 <= i < len(s); for every other i (negative, len(s) or more, any i for
\* the empty slice) an error container with the message
\* "Index <i> out of bounds for slice of len <len(s)>", both numbers in
\* decimal.
\* ------------------------------------------------------------------------
Decimals == <<"1", "2", "3", "4", "5", "6", "7", "8", "9", "10", "11", "12", "13">>

Decimal(n) ==
    CASE n = 0 -> "0"
      [] n > 0 -> Decimals[n]
      [] n < 0 -> "-" \o Decimals[0 - n]

C20_FromSliceChecksBounds ==
    made.f = "FromSlice" =>
        LET s == made.s
            i == made.i
            inBounds == 0 <= i /\ i < Len(s)
        IN
        /\ made.out.type = "Val"
        /\ baseOk(made.out) <=> inBounds
        /\ inBounds => made.out = NewVal(s[i + 1]) /\ OrPanic(made.out, "p").ret = <<s[i + 1]>>
        /\ ~inBounds =>
              /\ baseError(made.out) =
                    "Index " \o Decimal(i) \o " out of bounds for slice of len " \o Decimal(Len(s))
              /\ ZeroValued(made.out)

C20_Witness ==
    /\ made.f = "FromSlice" /\ made.s = <<1, 2>> /\ made.i = 5
    /\ ~baseOk(made.out)
    /\ baseError(made.out) = "Index 5 out of bounds for slice of len 2"


\* ------------------------------------------------------------------------
\* C21: FromMap(m, k) returns an ok container wrapping m[k] exactly when k
\* is a key of m, also when the value stored is the zero value; otherwise
\* an error container with the message "Map had no value for key <k>".
\* ------------------------------------------------------------------------
C21_FromMapChecksKey ==
    made.f = "FromMap" =>
        LET m == made.s
            k == made.i
            present == k \in DOMAIN m
        IN
        /\ made.out.type = "Val"
        /\ baseOk(made.out) <=> present
        /\ present => made.out = NewVal(m[k]) /\ OrPanic(made.out, "p").ret = <<m[k]>>
        /\ ~present =>
              /\ baseError(made.out) = "Map had no value for key " \o Decimal(k)
              /\ ZeroValued(made.out)

C21_Witness ==
    /\ made.f = "FromMap" /\ DOMAIN made.s = {1} /\ made.s[1] = 1 /\ made.i = 2
    /\ ~baseOk(made.out)
    /\ baseError(made.out) = "Map had no value for key 2"


\* ------------------------------------------------------------------------
\* C22: the error-result signal of OrError goes to the nearest enclosing
\* activation that deferred Handle or HandleError; activations in between
\* that deferred nothing or only HandleReturn pass it on unchanged.  The
\* intercepting function returns the carried error (context + ": " + the
\* original message) and nothing of the activations the signal left runs
\* after the raise.
\* ------------------------------------------------------------------------
ErrorSignalUnwinding == lastOp.raised.kind = "panicToError" /\ lastH # NoH

C22_ErrorSignalReachesNearestMatch ==
    ErrorSignalUnwinding =>
        /\ OnError("OrError")
        /\ lastOp.raised.err.msg = lastOp.ctx \o ": " \o lastOp.c.err.msg
        /\ lastH.r = lastOp.raised
        /\ lastH.level \in 1..RaiseDepth
        /\ lastH.before = RaiseStack[lastH.level]
        /\ Passed \subseteq {"none", "HandleReturn"}
        /\ stack = SubSeq(RaiseStack, 1, lastH.level - 1)
        /\ IF lastH.handler \in {"none", "HandleReturn"}
           THEN /\ lastH.out = lastOp.raised
                /\ lastH.after = lastH.before
                /\ panicking = lastOp.raised
           ELSE /\ lastH.out = NoPanic
                /\ panicking = NoPanic /\ mode = "run"
                /\ retval = RetOf(lastH.after)
                /\ lastH.handler = "Handle" => retval.res.err = lastOp.raised.err
                /\ lastH.handler = "HandleError" => retval.err = lastOp.raised.err

C22_Witness ==
    /\ ErrorSignalUnwinding /\ RaiseDepth = 3
    /\ RaiseStack[3].handler = "none" /\ RaiseStack[2].handler = "HandleReturn"
    /\ lastH.level = 1 /\ lastH.handler = "Handle"
    /\ retval.res = Error(NewError("Context: Test error"))
    /\ stack = <<>> /\ panicking = NoPanic


\* ------------------------------------------------------------------------
\* C23: a signal is intercepted at most once.  The handler that matches it
\* recovers it: its function returns normally to its caller, which is where
\* it was after the call and goes on, and nothing is in flight any more.
\* A handler only ever observes the payload that is in flight when it runs,
\* and a payload comes in flight only by a new raise, so no handler of an
\* outer activation observes the intercepted signal.
\* ------------------------------------------------------------------------
Matched ==
    \/ Saw("panicToReturn") /\ lastH.handler # "none"
    \/ Saw("panicToError") /\ lastH.handler \in {"Handle", "HandleError"}

InterceptedOnce ==
    Matched =>
        /\ lastH.out = NoPanic
        /\ panicking = NoPanic /\ mode = "run" /\ failure = ""
        /\ Len(stack) = lastH.level - 1
        /\ stack = SubSeq(RaiseStack, 1, lastH.level - 1)
        /\ retval = RetOf(lastH.after)

C23_SignalInterceptedAtMostOnce ==
    /\ []InterceptedOnce
    /\ [][(lastH' # lastH /\ lastH'.r # NoPanic) =>
            (panicking # NoPanic /\ lastH'.r = panicking /\ lastH'.level = Len(stack))]_vars
    /\ [][(panicking = NoPanic /\ panicking' # NoPanic) =>
            (lastOp'.raised = panicking' /\ lastH' \in {lastH, NoH}
                /\ (ops' = ops + 1 \/ mode = "inFn"))]_vars

C23_Witness ==
    /\ Matched /\ Saw("panicToError") /\ lastH.handler = "Handle"
    /\ RaiseDepth = 2 /\ lastH.level = 2
    /\ Len(stack) = 1 /\ Top.handler = "Handle" /\ Top.res = Ok /\ Top.pc = 1
    /\ retval.res = ValError(NewError("Context: Test error"))
    /\ panicking = NoPanic


\* ------------------------------------------------------------------------
\* C24: every unwind started by OrError or OrDoAndReturn on an error
\* container ends: a handler intercepts the signal, or it leaves the
\* outermost activation and is reported as the failure that names the
\* missing handler.  While it is in flight every step takes it out of
\* exactly one activation, so it moves strictly outward.
\* ------------------------------------------------------------------------
SignalInFlight ==
    mode = "run" /\ panicking.kind \in {"panicToReturn", "panicToError"}

SignalEnded ==
    \/ /\ panicking = NoPanic /\ Intercepted /\ lastH.r = lastOp.raised
       /\ lastH.handler # "none"
    \/ /\ mode = "crashed" /\ stack = <<>> /\ failure = PanicMessage(lastOp.raised)

C24_UnwindEnds ==
    /\ SignalInFlight ~> SignalEnded
    /\ [][(SignalInFlight /\ stack # <<>>) =>
            /\ Len(stack') = Len(stack) - 1
            /\ stack' = SubSeq(stack, 1, Len(stack) - 1)
            /\ lastH'.level = Len(stack)
            /\ panicking' \in {NoPanic, panicking}]_vars

C24_Witness ==
    /\ mode = "crashed" /\ lastOp.raised.kind = "panicToReturn" /\ RaiseDepth = 3
    /\ \A i \in 1..3 : RaiseStack[i].handler = "none"
    /\ Contains(failure, "HandleReturn()")

\* ------------------------------------------------------------------------
\* C25: a function with Handle or HandleError that applies OrError to a
\* sequence of containers returns the context-wrapped error of the first
\* error container of the sequence and evaluates nothing after it; it
\* returns its own ok result only if every container of the sequence is ok.
\* ------------------------------------------------------------------------
ErrorAt(i) == prog[i].c.err # Nil

\* The position of the first error container of the body, 0 when all are ok
FirstError ==
    IF \E i \in 1..Len(prog) : ErrorAt(i)
    THEN CHOOSE i \in 1..Len(prog) : ErrorAt(i) /\ \A j \in 1..(i - 1) : ~ErrorAt(j)
    ELSE 0

\* The function has returned to its caller
Exited == ops > 0 /\ stack = <<>>

\* The error the caller got: the error result, or the error of the container
ReturnedError == IF retval.ret = "error" THEN retval.err ELSE retval.res.err

C25_FirstErrorIsReturned ==
    /\ (stack # <<>> /\ FirstError # 0) => Top.pc <= FirstError
    /\ (Exited /\ FirstError # 0) =>
          LET st == prog[FirstError] IN
          /\ ReturnedError = NewError(st.ctx \o ": " \o st.c.err.msg)
          /\ lastOp.op = "OrError" /\ lastOp.c = st.c /\ lastOp.ctx = st.ctx
          /\ lastH.before.pc = FirstError
          /\ ops = FirstError + 1
          /\ lastH.r.kind = "panicToError" /\ lastH.out = NoPanic
    /\ (Exited /\ FirstError = 0) =>
          /\ ReturnedError = Nil
          /\ IsResult(retval.ret) => retval.res = OkRes(retval.ret)
          /\ lastH.r = NoPanic
          /\ ops = Len(prog) + 2
    /\ (Exited /\ ReturnedError = Nil) => \A i \in 1..Len(prog) : ~ErrorAt(i)

\* Two error containers in a function returning error with HandleError:
\* the first one's error comes back wrapped in the first one's context, the
\* second statement is never reached
C25_Witness ==
    /\ Exited
    /\ Len(prog) = 2 /\ ErrorAt(1) /\ ErrorAt(2) /\ prog[1].ctx # prog[2].ctx
    /\ retval.ret = "error"
    /\ retval.err = NewError(prog[1].ctx \o ": Test error")
    /\ lastH.before.pc = 1

\* ------------------------------------------------------------------------
\* C26: a handler is active exactly while the activation that deferred it
\* is on the call stack.  The handler that observes a panic belongs to an
\* activation that was on the stack where the panic was raised, every
\* activation further in has been left without a handler that matches, and
\* with the run of its handler the activation is off the stack; so a signal
\* raised after a function exited, by a return or by an interception, is
\* never intercepted by the handler of that function.
\* ------------------------------------------------------------------------
Matches(handler, r) ==
    \/ r.kind = "panicToReturn" /\ handler \in {"HandleReturn", "HandleError", "Handle"}
    \/ r.kind = "panicToError" /\ handler \in {"HandleError", "Handle"}

C26_HandlerActiveWhileOnStack ==
    /\ lastH.r # NoPanic =>
          /\ lastH.r = lastOp.raised
          /\ lastH.level \in 1..RaiseDepth
          /\ lastH.before = RaiseStack[lastH.level]
          /\ lastH.handler = RaiseStack[lastH.level].handler
          /\ \A i \in (lastH.level + 1)..RaiseDepth :
                ~Matches(RaiseStack[i].handler, lastOp.raised)
          /\ (lastH.out = NoPanic) <=> Matches(lastH.handler, lastH.r)
    /\ lastH # NoH =>
          /\ Len(stack) = lastH.level - 1
          /\ lastH.r = NoPanic => panicking = NoPanic /\ retval = RetOf(lastH.after)

\* A function with Handle intercepted a signal and returned the error to
\* its caller, which has no handler; the caller applies OrError to what it
\* got: the new signal meets no handler and is reported.
C26_Witness ==
    /\ mode = "crashed"
    /\ retval.ret = "Status" /\ retval.res = Error(NewError("Context: Test error"))
    /\ lastOp.op = "OrError" /\ lastOp.c = retval.res
    /\ lastOp.raised = panicToError(NewError("result error: Context: Test error"))
    /\ RaiseDepth = 1 /\ RaiseStack[1].handler = "none"
    /\ lastH.handler = "none" /\ lastH.level = 1 /\ lastH.out = lastOp.raised
    /\ Contains(failure, "result error: Context: Test error")

====
